---- MODULE Spec2Model ----
(***************************************************************************)
(* SentVideoQualityThrottler (src/utils/webrtc/SentVideoQualityThrottler.js)*)
(* as a state machine: the throttler's fields, the emitters it listens to  *)
(* (local media model, call participant collection, participant models,    *)
(* signaling, window timers) and one action per event or public method.    *)
(***************************************************************************)
EXTENDS Integers, Sequences, FiniteSets, TLC

\* ------------------------------------------------------------------ bounds
\* Participants the collection can hold in the behaviours explored.
MaxParticipants == 1
\* Grace-period timeouts that can be pending at once in the behaviours explored.
MaxTimers == 2
\* Largest threshold value of the tables enumerated for the decision function.
MaxThreshold == 2
\* Handlers that can be registered on one event of the throttler at once.
MaxHandlers == 2

\* ------------------------------------------------------- QUALITY (imported)
THUMBNAIL == 0
VERY_LOW == 1
LOW == 2
MEDIUM == 3
HIGH == 4

Qualities == THUMBNAIL..HIGH

\* What the timer id in _gracePeriodAfterSpeakingTimeout refers to.
Null == "null"
Pending == "pending"
Fired == "fired"


VARIABLES
    localMediaModel,            \* [videoAvailable, videoEnabled, audioEnabled, speaking]
    callParticipantModels,      \* id -> [present, videoAvailable, audioAvailable]
    listeners,                  \* registrations of the throttler's bound handlers, per event
    participantListeners,       \* id -> registrations on that model's 'change:videoAvailable'
    gracePeriodAfterSpeakingTimeout,        \* this._gracePeriodAfterSpeakingTimeout
    timers,                     \* number of pending window timeouts of the grace callback
    speakingOrInGracePeriodAfterSpeaking,   \* this._speakingOrInGracePeriodAfterSpeaking
    availableVideosThreshold,   \* this._availableVideosThreshold
    availableAudiosThreshold,   \* this._availableAudiosThreshold
    calls,                      \* applyConstraints and _trigger calls of the last operation, in order
    thrown,                     \* what the last operation threw
    aliases,                    \* the table fields that hold an object passed in by a caller
    handlers,                   \* this._handlers: event -> handlers registered with on()
    ignoredMessage              \* the message _handleSignalingMessage returned from without
                                \* calling a setter in the last operation, if any

vars == <<localMediaModel, callParticipantModels, listeners, participantListeners,
          gracePeriodAfterSpeakingTimeout, timers, speakingOrInGracePeriodAfterSpeaking,
          availableVideosThreshold, availableAudiosThreshold,
          calls, thrown, aliases, handlers, ignoredMessage>>

\* ----------------------------------------------------------------- tables
\* A threshold table is a function from the levels it has an entry for to counts.
Table(t, vl, l, m, h) ==
    (THUMBNAIL :> t) @@ (VERY_LOW :> vl) @@ (LOW :> l) @@ (MEDIUM :> m) @@ (HIGH :> h)

Without(table, q) == [i \in (DOMAIN table) \ {q} |-> table[i]]

DefaultAvailableVideosThreshold == Table(15, 10, 7, 4, 2)
DefaultAvailableAudiosThreshold == Table(50, 40, 30, 20, 10)

\* i in threshold
HasEntry(threshold, i) == i \in DOMAIN threshold

\* count >= threshold[i]; threshold[i] is undefined when the table has no such
\* property, and a comparison with undefined is false.
AtLeast(count, threshold, i) == HasEntry(threshold, i) /\ count >= threshold[i]

\* The tables given to the setters and sent in control messages.
MonotonicTable == Table(2, 2, 1, 1, 1)
NonMonotonicTable == Table(2, 1, 2, 1, 0)
ValidTables == {MonotonicTable, NonMonotonicTable}
\* Tables that lack the entry of HIGH, of a lower level, and of both.
InvalidTables ==
    {Without(MonotonicTable, HIGH),
     Without(MonotonicTable, LOW),
     Without(Without(NonMonotonicTable, LOW), HIGH)}
Tables == ValidTables \cup InvalidTables

\* -------------------------------------------------------- decision function
AvailableVideosCount(cpm) ==
    Cardinality({p \in DOMAIN cpm : cpm[p].present /\ cpm[p].videoAvailable})

AvailableAudiosCount(cpm) ==
    Cardinality({p \in DOMAIN cpm : cpm[p].present /\ cpm[p].audioAvailable})

\* Mutant of ScanFrom: the comparison is > instead of >=.
RECURSIVE ScanFromStrictlyAbove(_, _, _, _, _)
ScanFromStrictlyAbove(i, videos, audios, videosThreshold, audiosThreshold) ==
    IF ~(i < HIGH) THEN HIGH
    ELSE IF (HasEntry(videosThreshold, i) /\ videos > videosThreshold[i])
            \/ (HasEntry(audiosThreshold, i) /\ audios > audiosThreshold[i])
         THEN i
         ELSE ScanFromStrictlyAbove(i + 1, videos, audios, videosThreshold, audiosThreshold)

\* Mutant of ScanFrom: the loop keeps the last level whose threshold is met
\* instead of returning at the first one.
RECURSIVE ScanFromKeepingLast(_, _, _, _, _)
ScanFromKeepingLast(i, videos, audios, videosThreshold, audiosThreshold) ==
    IF ~(i < HIGH) THEN HIGH
    ELSE LET rest == ScanFromKeepingLast(i + 1, videos, audios,
                                         videosThreshold, audiosThreshold)
         IN IF rest = HIGH /\ (AtLeast(videos, videosThreshold, i)
                                \/ AtLeast(audios, audiosThreshold, i))
            THEN i
            ELSE rest

\* The loop of _getQualityForState from level i on.
RECURSIVE ScanFrom(_, _, _, _, _)
ScanFrom(i, videos, audios, videosThreshold, audiosThreshold) ==
    IF ~(i < HIGH) THEN HIGH
    ELSE IF AtLeast(videos, videosThreshold, i)
            \/ AtLeast(audios, audiosThreshold, i)
         THEN i
         ELSE ScanFrom(i + 1, videos, audios, videosThreshold, audiosThreshold)

\* Mutant of GetQualityForState: the speaking state is not looked at.
GetQualityForStateIgnoringSpeaking(speakingOrInGrace, cpm, videosThreshold, audiosThreshold) ==
    ScanFrom(THUMBNAIL, AvailableVideosCount(cpm), AvailableAudiosCount(cpm),
             videosThreshold, audiosThreshold)

\* _getQualityForState
GetQualityForState(speakingOrInGrace, cpm, videosThreshold, audiosThreshold) ==
    IF speakingOrInGrace THEN HIGH
    ELSE ScanFrom(THUMBNAIL, AvailableVideosCount(cpm), AvailableAudiosCount(cpm),
                  videosThreshold, audiosThreshold)

\* What an operation throws: nothing, or Error('No threshold for quality ' + i).
NoError == [error |-> "none"]
NoThresholdFor(i) == [error |-> "No threshold for quality", quality |-> i]

\* Mutant of ValidateFrom: the loop stops before HIGH, as the loop of
\* _getQualityForState does.
RECURSIVE ValidateFromBelowHigh(_, _)
ValidateFromBelowHigh(threshold, i) ==
    IF ~(i < HIGH) THEN NoError
    ELSE IF ~HasEntry(threshold, i) THEN NoThresholdFor(i)
    ELSE ValidateFromBelowHigh(threshold, i + 1)

\* The loop of _validateThreshold from level i on: what it throws.
RECURSIVE ValidateFrom(_, _)
ValidateFrom(threshold, i) ==
    IF ~(i <= HIGH) THEN NoError
    ELSE IF ~HasEntry(threshold, i) THEN NoThresholdFor(i)
    ELSE ValidateFrom(threshold, i + 1)

\* _validateThreshold
ValidateThreshold(threshold) == ValidateFrom(threshold, THUMBNAIL)

\* _validateThreshold logs a warning: for some level i that the loop reaches,
\* threshold[i] > threshold[i - 1].
Warns(threshold) ==
    \E i \in (THUMBNAIL + 1)..HIGH :
        /\ \A j \in THUMBNAIL..i : HasEntry(threshold, j)
        /\ threshold[i] > threshold[i - 1]

\* ---------------------------------------------------------- throttler state
\* No message: the value of ignoredMessage when the last operation ignored none.
NoMessage == [type |-> "none"]

\* The throttler's fields and the outputs of the operation in progress, as one value
\* that the handlers below transform.
This ==
    [timeout |-> gracePeriodAfterSpeakingTimeout,
     timers |-> timers,
     speakingOrInGrace |-> speakingOrInGracePeriodAfterSpeaking,
     videosThreshold |-> availableVideosThreshold,
     audiosThreshold |-> availableAudiosThreshold,
     listeners |-> listeners,
     participantListeners |-> participantListeners,
     calls |-> <<>>,
     thrown |-> NoError,
     aliases |-> aliases,
     handlers |-> handlers,
     ignored |-> NoMessage]

\* emitter.on(event, handler) and emitter.off(event, handler) on a registration count.
On(n) == n + 1
Off(n) == IF n > 0 THEN n - 1 ELSE 0

\* window.setTimeout and window.clearTimeout. Every pending timeout runs the same
\* callback after the same delay, so they fire oldest first and only their number
\* matters, together with what the id kept in _gracePeriodAfterSpeakingTimeout refers
\* to: nothing (Null), the timeout scheduled last, still pending (Pending), or a
\* timeout that has fired (Fired). setTimeout always stores the new id there, so a
\* pending timeout the field refers to is the newest one.
SetTimeout(s) == [s EXCEPT !.timeout = Pending, !.timers = @ + 1]

ClearTimeout(s) == IF s.timeout = Pending THEN [s EXCEPT !.timers = @ - 1] ELSE s

\* The oldest pending timeout leaves the timer queue to run its callback.
FireTimeout(s) ==
    [s EXCEPT !.timers = @ - 1,
              !.timeout = IF @ = Pending /\ s.timers = 1 THEN Fired ELSE @]

\* The calls the throttler makes out of itself: this._videoConstrainer
\* .applyConstraints(quality), and _trigger(event, [threshold]) for its listeners.
ApplyConstraints(quality) == [call |-> "applyConstraints", quality |-> quality]
Triggered(event, threshold) == [call |-> "trigger", event |-> event, threshold |-> threshold]

\* Mutant of AdjustVideoQualityIfNeeded: only videoAvailable is tested.
AdjustVideoQualityIfAvailable(s, lm, cpm) ==
    IF ~lm.videoAvailable THEN s
    ELSE [s EXCEPT !.calls =
              Append(@, ApplyConstraints(
                            GetQualityForState(s.speakingOrInGrace, cpm,
                                               s.videosThreshold, s.audiosThreshold)))]

\* _adjustVideoQualityIfNeeded
AdjustVideoQualityIfNeeded(s, lm, cpm) ==
    IF ~lm.videoAvailable \/ ~lm.videoEnabled THEN s
    ELSE [s EXCEPT !.calls =
              Append(@, ApplyConstraints(
                            GetQualityForState(s.speakingOrInGrace, cpm,
                                               s.videosThreshold, s.audiosThreshold)))]

\* _handleLocalAudioEnabledChange
HandleLocalAudioEnabledChange(s, lm, cpm) ==
    IF lm.audioEnabled THEN s
    ELSE AdjustVideoQualityIfNeeded(
             [ClearTimeout(s) EXCEPT !.timeout = Null,
                                     !.speakingOrInGrace = FALSE], lm, cpm)

\* _handleLocalSpeakingChange
HandleLocalSpeakingChange(s, lm, cpm) ==
    IF lm.speaking
    THEN AdjustVideoQualityIfNeeded(
             [ClearTimeout(s) EXCEPT !.timeout = Null,
                                     !.speakingOrInGrace = TRUE], lm, cpm)
    ELSE SetTimeout(s)

\* The callback given to window.setTimeout in _handleLocalSpeakingChange.
GracePeriodExpired(s, lm, cpm) ==
    AdjustVideoQualityIfNeeded([s EXCEPT !.speakingOrInGrace = FALSE], lm, cpm)

\* _startListeningToChanges
StartListeningToChanges(s, lm, cpm) ==
    LET subscribed ==
            [s EXCEPT !.listeners.videoEnabled = On(@),
                      !.listeners.audioEnabled = On(@),
                      !.listeners.speaking = On(@),
                      !.listeners.add = On(@),
                      !.listeners.remove = On(@),
                      !.participantListeners =
                          [p \in DOMAIN @ |-> IF cpm[p].present THEN On(@[p]) ELSE @[p]]]
    IN AdjustVideoQualityIfNeeded(
           HandleLocalAudioEnabledChange(
               HandleLocalSpeakingChange(subscribed, lm, cpm), lm, cpm), lm, cpm)

\* Mutant of StopListeningToChanges: the handlers on the participant models are
\* left registered.
StopListeningToLocalChanges(s, lm, cpm) ==
    [s EXCEPT !.listeners.videoEnabled = Off(@),
              !.listeners.audioEnabled = Off(@),
              !.listeners.speaking = Off(@),
              !.listeners.add = Off(@),
              !.listeners.remove = Off(@)]

\* _stopListeningToChanges
StopListeningToChanges(s, lm, cpm) ==
    [s EXCEPT !.listeners.videoEnabled = Off(@),
              !.listeners.audioEnabled = Off(@),
              !.listeners.speaking = Off(@),
              !.listeners.add = Off(@),
              !.listeners.remove = Off(@),
              !.participantListeners =
                  [p \in DOMAIN @ |-> IF cpm[p].present THEN Off(@[p]) ELSE @[p]]]

\* _handleLocalVideoAvailableChange
HandleLocalVideoAvailableChange(s, lm, cpm) ==
    IF lm.videoAvailable THEN StartListeningToChanges(s, lm, cpm)
    ELSE StopListeningToChanges(s, lm, cpm)

\* _handleAddParticipant
HandleAddParticipant(s, lm, cpm, p) ==
    AdjustVideoQualityIfNeeded([s EXCEPT !.participantListeners[p] = On(@)], lm, cpm)

\* _handleRemoveParticipant
HandleRemoveParticipant(s, lm, cpm, p) ==
    AdjustVideoQualityIfNeeded([s EXCEPT !.participantListeners[p] = Off(@)], lm, cpm)

\* The events of the throttler, and the handlers a consumer registers for them,
\* by what they do when called: "log" only takes its arguments, "unsubscriber"
\* also calls off(event, "log") on the throttler and "subscriber" on(event, "log").
Events == {"change:availableVideosThreshold", "change:availableAudiosThreshold"}
ObserverHandlers == {"log", "unsubscriber", "subscriber"}

\* on(event, handler)
ThrottlerOn(s, event, handler) == [s EXCEPT !.handlers[event] = Append(@, handler)]

\* handlers.indexOf(handler): the first index of handler in the list, 0 for none
\* (the code's -1).
IndexOf(list, handler) ==
    IF \E i \in 1..Len(list) : list[i] = handler
    THEN CHOOSE i \in 1..Len(list) :
             list[i] = handler /\ \A j \in 1..(i - 1) : list[j] # handler
    ELSE 0

\* handlers.splice(index, 1)
Splice(list, index) == SubSeq(list, 1, index - 1) \o SubSeq(list, index + 1, Len(list))

\* off(event, handler)
ThrottlerOff(s, event, handler) ==
    LET index == IndexOf(s.handlers[event], handler)
    IN IF index # 0 THEN [s EXCEPT !.handlers[event] = Splice(@, index)] ELSE s

\* handler.apply(handler, args): the call, then what the handler does.
Throttler == "this"
Invoked(handler, args) == [call |-> "handler", handler |-> handler, args |-> args]

Apply(handler, s, event, args) ==
    LET called == [s EXCEPT !.calls = Append(@, Invoked(handler, args))]
    IN CASE handler = "unsubscriber" -> ThrottlerOff(called, event, "log")
         [] handler = "subscriber" -> ThrottlerOn(called, event, "log")
         [] OTHER -> called

\* Mutant of TriggerFrom: the loop runs over this._handlers[event] itself, not over
\* the copy made by slice(0).
RECURSIVE TriggerFromLive(_, _, _, _, _)
TriggerFromLive(s, event, args, copy, i) ==
    IF ~(i <= Len(s.handlers[event])) THEN s
    ELSE TriggerFromLive(Apply(s.handlers[event][i], s, event, args),
                         event, args, copy, i + 1)

\* The loop of _trigger over the copy of the handler list, from index i on.
RECURSIVE TriggerFrom(_, _, _, _, _)
TriggerFrom(s, event, args, copy, i) ==
    IF ~(i <= Len(copy)) THEN s
    ELSE TriggerFrom(Apply(copy[i], s, event, args), event, args, copy, i + 1)

\* _trigger(event, [threshold])
Trigger(s, event, threshold) ==
    TriggerFrom([s EXCEPT !.calls = Append(@, Triggered(event, threshold))],
                event, <<Throttler, threshold>>, s.handlers[event], 1)

\* Mutant of SetAvailableVideosThreshold: the re-evaluation runs before the new
\* table is stored.
SetAvailableVideosThresholdAdjustingFirst(s, lm, cpm, threshold) ==
    IF ValidateThreshold(threshold) # NoError
    THEN [s EXCEPT !.thrown = ValidateThreshold(threshold)]
    ELSE Trigger([AdjustVideoQualityIfNeeded(s, lm, cpm)
                      EXCEPT !.videosThreshold = threshold,
                             !.aliases = @ \cup {"_availableVideosThreshold"}],
                 "change:availableVideosThreshold", threshold)

\* setAvailableVideosThreshold
SetAvailableVideosThreshold(s, lm, cpm, threshold) ==
    IF ValidateThreshold(threshold) # NoError
    THEN [s EXCEPT !.thrown = ValidateThreshold(threshold)]
    ELSE AdjustVideoQualityIfNeeded(
             Trigger([s EXCEPT !.videosThreshold = threshold,
                              !.aliases = @ \cup {"_availableVideosThreshold"}],
                     "change:availableVideosThreshold", threshold), lm, cpm)

\* Mutant of SetAvailableAudiosThreshold: the table is stored before it is validated.
SetAvailableAudiosThresholdStoringFirst(s, lm, cpm, threshold) ==
    IF ValidateThreshold(threshold) # NoError
    THEN [s EXCEPT !.audiosThreshold = threshold,
                   !.aliases = @ \cup {"_availableAudiosThreshold"},
                   !.thrown = ValidateThreshold(threshold)]
    ELSE AdjustVideoQualityIfNeeded(
             Trigger([s EXCEPT !.audiosThreshold = threshold,
                              !.aliases = @ \cup {"_availableAudiosThreshold"}],
                     "change:availableAudiosThreshold", threshold), lm, cpm)

\* setAvailableAudiosThreshold
SetAvailableAudiosThreshold(s, lm, cpm, threshold) ==
    IF ValidateThreshold(threshold) # NoError
    THEN [s EXCEPT !.thrown = ValidateThreshold(threshold)]
    ELSE AdjustVideoQualityIfNeeded(
             Trigger([s EXCEPT !.audiosThreshold = threshold,
                              !.aliases = @ \cup {"_availableAudiosThreshold"}],
                     "change:availableAudiosThreshold", threshold), lm, cpm)

\* Mutant of HandleSignalingMessage: the type of the message is not looked at.
HandleSignalingMessageOfAnyType(s, lm, cpm, message) ==
    IF message.payload.action = "forceAvailableVideosThreshold"
    THEN SetAvailableVideosThreshold(s, lm, cpm, message.payload.threshold)
    ELSE IF message.payload.action = "forceAvailableAudiosThreshold"
         THEN SetAvailableAudiosThreshold(s, lm, cpm, message.payload.threshold)
    ELSE [s EXCEPT !.ignored = message]

\* _handleSignalingMessage; a return that calls no setter leaves the message in
\* s.ignored.
HandleSignalingMessage(s, lm, cpm, message) ==
    IF message.type # "control" THEN [s EXCEPT !.ignored = message]
    ELSE IF message.payload.action = "forceAvailableVideosThreshold"
         THEN SetAvailableVideosThreshold(s, lm, cpm, message.payload.threshold)
    ELSE IF message.payload.action = "forceAvailableAudiosThreshold"
         THEN SetAvailableAudiosThreshold(s, lm, cpm, message.payload.threshold)
    ELSE [s EXCEPT !.ignored = message]

\* The bound handlers that the throttler registers on the emitters, called with
\* what the event carries (a participant, a message, or nothing).
Call(handler, s, lm, cpm, arg) ==
    CASE handler = "_handleLocalVideoAvailableChange" ->
             HandleLocalVideoAvailableChange(s, lm, cpm)
      [] handler = "_adjustVideoQualityIfNeeded" -> AdjustVideoQualityIfNeeded(s, lm, cpm)
      [] handler = "_handleLocalAudioEnabledChange" ->
             HandleLocalAudioEnabledChange(s, lm, cpm)
      [] handler = "_handleLocalSpeakingChange" -> HandleLocalSpeakingChange(s, lm, cpm)
      [] handler = "_handleAddParticipant" -> HandleAddParticipant(s, lm, cpm, arg)
      [] handler = "_handleRemoveParticipant" -> HandleRemoveParticipant(s, lm, cpm, arg)
      [] handler = "_handleSignalingMessage" -> HandleSignalingMessage(s, lm, cpm, arg)

\* The emitter calls a handler once per registration it had when the event
\* was emitted.
RECURSIVE Deliver(_, _, _, _, _, _)
Deliver(n, handler, s, lm, cpm, arg) ==
    IF n = 0 \/ s.thrown # NoError THEN s
    ELSE Deliver(n - 1, handler, Call(handler, s, lm, cpm, arg), lm, cpm, arg)

\* destroy
DestroyThrottler(s, lm, cpm) ==
    StopListeningToChanges([s EXCEPT !.listeners.videoAvailable = Off(@)], lm, cpm)

\* The constructor, on the emitters as they are when it runs.
Construct(lm, cpm) ==
    LET fresh ==
            [timeout |-> Null,
             timers |-> 0,
             speakingOrInGrace |-> FALSE,
             videosThreshold |-> DefaultAvailableVideosThreshold,
             audiosThreshold |-> DefaultAvailableAudiosThreshold,
             listeners |-> [message |-> On(0), videoAvailable |-> On(0),
                            videoEnabled |-> 0, audioEnabled |-> 0, speaking |-> 0,
                            add |-> 0, remove |-> 0],
             participantListeners |-> [p \in DOMAIN cpm |-> 0],
             calls |-> <<>>,
             thrown |-> NoError,
             aliases |-> {},
             handlers |-> [event \in Events |-> <<>>],
             ignored |-> NoMessage]
    IN IF lm.videoAvailable THEN StartListeningToChanges(fresh, lm, cpm) ELSE fresh

\* ------------------------------------------------------------ environment
LocalMediaStates ==
    [videoAvailable : BOOLEAN, videoEnabled : BOOLEAN,
     audioEnabled : BOOLEAN, speaking : BOOLEAN]

Absent == [present |-> FALSE, videoAvailable |-> FALSE, audioAvailable |-> FALSE]

Present(video, audio) ==
    [present |-> TRUE, videoAvailable |-> video, audioAvailable |-> audio]

ParticipantStates == {Absent} \cup {Present(v, a) : v \in BOOLEAN, a \in BOOLEAN}

Participants == 1..MaxParticipants

Message(type, action, threshold) ==
    [type |-> type, payload |-> [action |-> action, threshold |-> threshold]]

\* The messages signaling delivers: the two control actions the throttler knows,
\* with a table, and the others: a control action it does not know and a message of
\* another type.
ThresholdMessages ==
    {Message("control", a, t) :
         a \in {"forceAvailableVideosThreshold", "forceAvailableAudiosThreshold"},
         t \in ValidTables \cup {Without(MonotonicTable, HIGH), Without(MonotonicTable, LOW)}}

OtherMessages ==
    {Message("control", "mute", MonotonicTable),
     Message("offer", "forceAvailableVideosThreshold", MonotonicTable)}

Messages == ThresholdMessages \cup OtherMessages

\* The operation that has just run leaves the throttler as s.
Commit(s) ==
    /\ s.timers <= MaxTimers
    /\ \A event \in Events : Len(s.handlers[event]) <= MaxHandlers
    /\ gracePeriodAfterSpeakingTimeout' = s.timeout
    /\ timers' = s.timers
    /\ speakingOrInGracePeriodAfterSpeaking' = s.speakingOrInGrace
    /\ availableVideosThreshold' = s.videosThreshold
    /\ availableAudiosThreshold' = s.audiosThreshold
    /\ listeners' = s.listeners
    /\ participantListeners' = s.participantListeners
    /\ calls' = s.calls
    /\ thrown' = s.thrown
    /\ aliases' = s.aliases
    /\ handlers' = s.handlers
    /\ ignoredMessage' = s.ignored

\* ------------------------------------------------------------------ actions
Init ==
    \E lm \in LocalMediaStates, cpm \in [Participants -> ParticipantStates] :
        LET s == Construct(lm, cpm)
        IN /\ localMediaModel = lm
           /\ callParticipantModels = cpm
           /\ gracePeriodAfterSpeakingTimeout = s.timeout
           /\ timers = s.timers
           /\ speakingOrInGracePeriodAfterSpeaking = s.speakingOrInGrace
           /\ availableVideosThreshold = s.videosThreshold
           /\ availableAudiosThreshold = s.audiosThreshold
           /\ listeners = s.listeners
           /\ participantListeners = s.participantListeners
           /\ calls = s.calls
           /\ thrown = s.thrown
           /\ aliases = s.aliases
           /\ handlers = s.handlers
           /\ ignoredMessage = s.ignored

\* localMediaModel emits 'change:videoAvailable'.
LocalVideoAvailableChanged ==
    LET lm == [localMediaModel EXCEPT !.videoAvailable = ~@]
        cpm == callParticipantModels
    IN /\ localMediaModel' = lm
       /\ Commit(Deliver(listeners.videoAvailable, "_handleLocalVideoAvailableChange",
                         This, lm, cpm, Null))
       /\ UNCHANGED callParticipantModels

\* localMediaModel emits 'change:videoEnabled'.
LocalVideoEnabledChanged ==
    LET lm == [localMediaModel EXCEPT !.videoEnabled = ~@]
        cpm == callParticipantModels
    IN /\ localMediaModel' = lm
       /\ Commit(Deliver(listeners.videoEnabled, "_adjustVideoQualityIfNeeded",
                         This, lm, cpm, Null))
       /\ UNCHANGED callParticipantModels

\* localMediaModel emits 'change:audioEnabled'.
LocalAudioEnabledChanged ==
    LET lm == [localMediaModel EXCEPT !.audioEnabled = ~@]
        cpm == callParticipantModels
    IN /\ localMediaModel' = lm
       /\ Commit(Deliver(listeners.audioEnabled, "_handleLocalAudioEnabledChange",
                         This, lm, cpm, Null))
       /\ UNCHANGED callParticipantModels

\* localMediaModel emits 'change:speaking'.
LocalSpeakingChanged ==
    LET lm == [localMediaModel EXCEPT !.speaking = ~@]
        cpm == callParticipantModels
    IN /\ localMediaModel' = lm
       /\ Commit(Deliver(listeners.speaking, "_handleLocalSpeakingChange",
                         This, lm, cpm, Null))
       /\ UNCHANGED callParticipantModels

\* callParticipantCollection emits 'add'.
ParticipantAdded ==
    \E p \in Participants, video \in BOOLEAN, audio \in BOOLEAN :
        LET lm == localMediaModel
            cpm == [callParticipantModels EXCEPT ![p] = Present(video, audio)]
        IN /\ ~callParticipantModels[p].present
           /\ callParticipantModels' = cpm
           /\ Commit(Deliver(listeners.add, "_handleAddParticipant",
                             This, lm, cpm, p))
           /\ UNCHANGED localMediaModel

\* callParticipantCollection emits 'remove'.
ParticipantRemoved ==
    \E p \in Participants :
        LET lm == localMediaModel
            cpm == [callParticipantModels EXCEPT ![p] = Absent]
        IN /\ callParticipantModels[p].present
           /\ callParticipantModels' = cpm
           /\ Commit(Deliver(listeners.remove, "_handleRemoveParticipant",
                             This, lm, cpm, p))
           /\ UNCHANGED localMediaModel

\* A callParticipantModel of the collection emits 'change:videoAvailable'.
ParticipantVideoAvailableChanged ==
    \E p \in Participants :
        LET lm == localMediaModel
            cpm == [callParticipantModels EXCEPT ![p].videoAvailable = ~@]
        IN /\ callParticipantModels[p].present
           /\ callParticipantModels' = cpm
           /\ Commit(Deliver(participantListeners[p], "_adjustVideoQualityIfNeeded",
                             This, lm, cpm, Null))
           /\ UNCHANGED localMediaModel

\* A callParticipantModel of the collection emits 'change:audioAvailable', which
\* the throttler registers no handler for.
ParticipantAudioAvailableChanged ==
    \E p \in Participants :
        /\ callParticipantModels[p].present
        /\ callParticipantModels' = [callParticipantModels EXCEPT ![p].audioAvailable = ~@]
        /\ Commit(This)
        /\ UNCHANGED localMediaModel

\* The oldest pending timeout fires (all have the same delay).
GracePeriodTimeoutFired ==
    /\ timers > 0
    /\ Commit(GracePeriodExpired(FireTimeout(This),
                                 localMediaModel, callParticipantModels))
    /\ UNCHANGED <<localMediaModel, callParticipantModels>>

\* A caller invokes setAvailableVideosThreshold(threshold).
SetAvailableVideosThresholdCalledWith(threshold) ==
    /\ Commit(SetAvailableVideosThreshold(This, localMediaModel,
                                          callParticipantModels, threshold))
    /\ UNCHANGED <<localMediaModel, callParticipantModels>>

SetAvailableVideosThresholdCalled ==
    \E threshold \in Tables : SetAvailableVideosThresholdCalledWith(threshold)

\* A caller invokes setAvailableAudiosThreshold(threshold).
SetAvailableAudiosThresholdCalledWith(threshold) ==
    /\ Commit(SetAvailableAudiosThreshold(This, localMediaModel,
                                          callParticipantModels, threshold))
    /\ UNCHANGED <<localMediaModel, callParticipantModels>>

SetAvailableAudiosThresholdCalled ==
    \E threshold \in Tables : SetAvailableAudiosThresholdCalledWith(threshold)

\* signaling emits 'message'.
SignalingMessageReceivedWith(message) ==
    LET lm == localMediaModel
        cpm == callParticipantModels
    IN /\ Commit(Deliver(listeners.message, "_handleSignalingMessage",
                         This, lm, cpm, message))
       /\ UNCHANGED <<localMediaModel, callParticipantModels>>

SignalingMessageReceived ==
    \E message \in ThresholdMessages : SignalingMessageReceivedWith(message)

\* signaling emits a message that is none of the throttler's.
OtherMessageReceived ==
    \E message \in OtherMessages : SignalingMessageReceivedWith(message)

\* A caller invokes destroy().
DestroyCalled ==
    /\ Commit(DestroyThrottler(This, localMediaModel, callParticipantModels))
    /\ UNCHANGED <<localMediaModel, callParticipantModels>>

Next ==
    \/ LocalVideoAvailableChanged
    \/ LocalVideoEnabledChanged
    \/ LocalAudioEnabledChanged
    \/ LocalSpeakingChanged
    \/ ParticipantAdded
    \/ ParticipantRemoved
    \/ ParticipantVideoAvailableChanged
    \/ ParticipantAudioAvailableChanged
    \/ GracePeriodTimeoutFired
    \/ SetAvailableVideosThresholdCalled
    \/ SetAvailableAudiosThresholdCalled
    \/ SignalingMessageReceived
    \/ DestroyCalled

Spec == Init /\ [][Next]_vars

\* The throttler on a signaling channel that carries other messages too.
SignalingNext == Next \/ OtherMessageReceived

SignalingSpec == Init /\ [][SignalingNext]_vars

\* ------------------------------------------------- the throttler's observers
\* A consumer calls on(event, handler).
OnCalledWith(event, handler) ==
    /\ Commit(ThrottlerOn(This, event, handler))
    /\ UNCHANGED <<localMediaModel, callParticipantModels>>

OnCalled == \E event \in Events, handler \in ObserverHandlers : OnCalledWith(event, handler)

\* A consumer calls off(event, handler).
OffCalledWith(event, handler) ==
    /\ Commit(ThrottlerOff(This, event, handler))
    /\ UNCHANGED <<localMediaModel, callParticipantModels>>

OffCalled == \E event \in Events, handler \in ObserverHandlers : OffCalledWith(event, handler)

\* A throttler constructed on an unmuted, silent local media model and a collection
\* whose participants, if any, send video and audio.
ObserverInit ==
    /\ Init
    /\ localMediaModel.audioEnabled /\ ~localMediaModel.speaking
    /\ localMediaModel.videoEnabled
    /\ \A p \in Participants : callParticipantModels[p] \in {Absent, Present(TRUE, TRUE)}

ObserverNext ==
    \/ OnCalled
    \/ OffCalled
    \/ SetAvailableVideosThresholdCalled
    \/ SetAvailableAudiosThresholdCalled
    \/ SignalingMessageReceived

ObserverSpec == ObserverInit /\ [][ObserverNext]_vars

\* --------------------------------------------------- the callers' table objects
\* The setters store the object they are given, so the caller, who holds the same
\* object, changes the throttler's table when it assigns to a property of it. The
\* throttler is not told: no handler runs.
MutatedThreshold(threshold, q, count) == [threshold EXCEPT ![q] = count]

\* A caller assigns count to property q of the object it passed to a setter.
ThresholdMutatedWith(field, q, count) ==
    /\ field \in aliases
    /\ \/ /\ field = "_availableVideosThreshold"
          /\ HasEntry(availableVideosThreshold, q)
          /\ availableVideosThreshold[q] # count
          /\ Commit([This EXCEPT !.videosThreshold = MutatedThreshold(@, q, count)])
       \/ /\ field = "_availableAudiosThreshold"
          /\ HasEntry(availableAudiosThreshold, q)
          /\ availableAudiosThreshold[q] # count
          /\ Commit([This EXCEPT !.audiosThreshold = MutatedThreshold(@, q, count)])
    /\ UNCHANGED <<localMediaModel, callParticipantModels>>

\* The callers change the MEDIUM threshold of their tables.
ThresholdMutated ==
    \E field \in {"_availableVideosThreshold", "_availableAudiosThreshold"},
       count \in 0..MaxThreshold :
        ThresholdMutatedWith(field, MEDIUM, count)

OwnershipNext ==
    \/ SetAvailableVideosThresholdCalled
    \/ SetAvailableAudiosThresholdCalled
    \/ SignalingMessageReceived
    \/ ThresholdMutated
    \/ ParticipantVideoAvailableChanged

OwnershipSpec == ObserverInit /\ [][OwnershipNext]_vars

\* ------------------------------------------- the decision function on its own
\* A collection of max(videos, audios) participants, of which the first `videos`
\* have video available and the last `audios` have audio available.
CollectionWith(videos, audios) ==
    LET n == IF videos >= audios THEN videos ELSE audios
    IN [p \in 1..n |-> Present(p <= videos, p > n - audios)]

\* Every table with thresholds in 1..MaxThreshold for the levels below HIGH.
EnumeratedTables ==
    {Table(t, vl, l, m, 1) :
         t \in 1..MaxThreshold, vl \in 1..MaxThreshold,
         l \in 1..MaxThreshold, m \in 1..MaxThreshold}

\* The table of the specification's scenarios.
ScenarioTable(h) == Table(10, 7, 4, 2, h)

DecisionTables ==
    EnumeratedTables
    \cup {MonotonicTable, NonMonotonicTable,
          DefaultAvailableVideosThreshold, DefaultAvailableAudiosThreshold}

\* A throttler that listens to a local video that is available and enabled, with
\* the given tables and speaking state.
DecisionState(speakingOrInGrace, cpm, videosThreshold, audiosThreshold) ==
    LET lm == [videoAvailable |-> TRUE, videoEnabled |-> TRUE,
               audioEnabled |-> TRUE, speaking |-> speakingOrInGrace]
        s == Construct(lm, cpm)
    IN /\ localMediaModel = lm
       /\ callParticipantModels = cpm
       /\ gracePeriodAfterSpeakingTimeout = s.timeout
       /\ timers = s.timers
       /\ speakingOrInGracePeriodAfterSpeaking = speakingOrInGrace
       /\ availableVideosThreshold = videosThreshold
       /\ availableAudiosThreshold = audiosThreshold
       /\ listeners = s.listeners
       /\ participantListeners = s.participantListeners
       /\ calls = <<>>
       /\ thrown = NoError
       /\ aliases = s.aliases
       /\ handlers = s.handlers
       /\ ignoredMessage = NoMessage

DecisionInit ==
    \/ \E speakingOrInGrace \in BOOLEAN,
          videos \in 0..MaxThreshold, audios \in 0..MaxThreshold,
          videosThreshold \in DecisionTables, audiosThreshold \in DecisionTables :
           DecisionState(speakingOrInGrace, CollectionWith(videos, audios),
                         videosThreshold, audiosThreshold)
    \/ \E speakingOrInGrace \in BOOLEAN,
          videos \in 0..ScenarioTable(0)[THUMBNAIL], audios \in 0..1,
          h \in 0..MaxThreshold :
           DecisionState(speakingOrInGrace, CollectionWith(videos, audios),
                         ScenarioTable(h), DefaultAvailableAudiosThreshold)

\* _getQualityForState() is evaluated and its result recorded.
QualityForStateComputed ==
    /\ calls = <<>>
    /\ calls' = <<ApplyConstraints(
                     GetQualityForState(speakingOrInGracePeriodAfterSpeaking,
                                        callParticipantModels,
                                        availableVideosThreshold,
                                        availableAudiosThreshold))>>
    /\ UNCHANGED <<localMediaModel, callParticipantModels, listeners,
                   participantListeners, gracePeriodAfterSpeakingTimeout, timers,
                   speakingOrInGracePeriodAfterSpeaking, availableVideosThreshold,
                   availableAudiosThreshold, thrown, aliases, handlers,
                   ignoredMessage>>

DecisionNext == QualityForStateComputed

DecisionSpec == DecisionInit /\ [][DecisionNext]_vars

\* ================================================================== claims
\* The levels that have a threshold, and those whose threshold is met by the current
\* counts under the active tables.
ThresholdLevels == THUMBNAIL..MEDIUM

MetLevels ==
    {q \in ThresholdLevels :
         \/ AvailableVideosCount(callParticipantModels) >= availableVideosThreshold[q]
         \/ AvailableAudiosCount(callParticipantModels) >= availableAudiosThreshold[q]}

\* The applyConstraints calls of the last operation, and the level of the last one.
Applied == SelectSeq(calls, LAMBDA c : c.call = "applyConstraints")
LastApplied == Applied[Len(Applied)].quality

\* _validateThreshold accepts both active tables without a warning.
ActiveTablesMonotonic ==
    /\ ValidateThreshold(availableVideosThreshold) = NoError
    /\ ~Warns(availableVideosThreshold)
    /\ ValidateThreshold(availableAudiosThreshold) = NoError
    /\ ~Warns(availableAudiosThreshold)

\* C1: whenever speakingOrInGrace is true, the decision function returns HIGH,
\* whatever the counts and the threshold tables are.
C1_SpeakingPrecedence ==
    (Applied # <<>> /\ speakingOrInGracePeriodAfterSpeaking) => LastApplied = HIGH

\* C1 witness: the decision was taken while speaking with the threshold of a
\* lower level met.
C1_Witness ==
    /\ Applied # <<>>
    /\ speakingOrInGracePeriodAfterSpeaking
    /\ THUMBNAIL \in MetLevels
    /\ LastApplied = HIGH

\* C2 as stated: with monotonic tables, not speaking and some threshold met, the
\* decision is the highest-fidelity level among THUMBNAIL..MEDIUM whose threshold is met.
C2_LeastDegradedMet ==
    (Applied # <<>> /\ ~speakingOrInGracePeriodAfterSpeaking
         /\ ActiveTablesMonotonic /\ MetLevels # {})
        => /\ LastApplied \in MetLevels
           /\ \A q \in MetLevels : q <= LastApplied

\* C2 amended: with monotonic tables, not speaking and some threshold met, the
\* decision is the most degraded level whose threshold is met: the lowest-fidelity
\* level among THUMBNAIL..MEDIUM whose threshold is met by the video or the audio count.
C2_MostDegradedMet ==
    (Applied # <<>> /\ ~speakingOrInGracePeriodAfterSpeaking
         /\ ActiveTablesMonotonic /\ MetLevels # {})
        => /\ LastApplied \in MetLevels
           /\ \A q \in MetLevels : LastApplied <= q

\* C2 witness: monotonic tables under which several levels have their threshold met
\* and the decision is the lowest of them, not MEDIUM.
C2_Witness ==
    /\ Applied # <<>>
    /\ ~speakingOrInGracePeriodAfterSpeaking
    /\ ActiveTablesMonotonic
    /\ {LOW, MEDIUM} \subseteq MetLevels
    /\ VERY_LOW \notin MetLevels
    /\ LastApplied = LOW

\* C3: when not speaking the decision is the first level, in the order THUMBNAIL,
\* VERY_LOW, LOW, MEDIUM, whose video or audio threshold is met, and HIGH when
\* there is none; with video thresholds 10, 7, 4, 2, five remote videos and no
\* audio threshold met it is LOW.
C3_ScanRule ==
    (Applied # <<>> /\ ~speakingOrInGracePeriodAfterSpeaking)
        => /\ \A q \in ThresholdLevels :
                  (q \in MetLevels /\ \A lower \in THUMBNAIL..(q - 1) : lower \notin MetLevels)
                      => LastApplied = q
           /\ MetLevels = {} => LastApplied = HIGH
           /\ (/\ \E h \in 0..MaxThreshold :
                      availableVideosThreshold = ScenarioTable(h)
               /\ AvailableVideosCount(callParticipantModels) = 5
               /\ \A q \in ThresholdLevels :
                      AvailableAudiosCount(callParticipantModels)
                          < availableAudiosThreshold[q])
                  => LastApplied = LOW

\* C3 witness: the scenario of the claim.
C3_Witness ==
    /\ Applied # <<>>
    /\ ~speakingOrInGracePeriodAfterSpeaking
    /\ availableVideosThreshold = ScenarioTable(1)
    /\ AvailableVideosCount(callParticipantModels) = 5
    /\ MetLevels = {LOW, MEDIUM}
    /\ LastApplied = LOW

\* ---------------------------------------------------------------- lifecycle
\* The throttler listens to the changes _startListeningToChanges registers for.
Observing ==
    /\ listeners.videoEnabled > 0 /\ listeners.audioEnabled > 0
    /\ listeners.speaking > 0
    /\ listeners.add > 0 /\ listeners.remove > 0

\* The local video is sent: _adjustVideoQualityIfNeeded goes on to applyConstraints.
VideoSent == localMediaModel.videoAvailable /\ localMediaModel.videoEnabled

\* The decision for the current state: HIGH when speaking or in the grace period,
\* else the lowest level whose threshold is met, else HIGH.
Decision ==
    IF speakingOrInGracePeriodAfterSpeaking \/ MetLevels = {} THEN HIGH
    ELSE CHOOSE q \in MetLevels : \A other \in MetLevels : q <= other

\* The throttler state a rejected call must leave alone.
throttler ==
    <<availableVideosThreshold, availableAudiosThreshold,
      speakingOrInGracePeriodAfterSpeaking, gracePeriodAfterSpeakingTimeout, timers,
      listeners, participantListeners>>

\* A table with an entry for every level from THUMBNAIL to HIGH.
Complete(threshold) == Qualities \subseteq DOMAIN threshold

VideosMessage(threshold) == Message("control", "forceAvailableVideosThreshold", threshold)
AudiosMessage(threshold) == Message("control", "forceAvailableAudiosThreshold", threshold)

\* The step replaces the video (audio) table by threshold, directly or by a
\* control message that the throttler listens to.
VideosThresholdSet(threshold) ==
    \/ SetAvailableVideosThresholdCalledWith(threshold)
    \/ /\ listeners.message > 0
       /\ VideosMessage(threshold) \in Messages
       /\ SignalingMessageReceivedWith(VideosMessage(threshold))

AudiosThresholdSet(threshold) ==
    \/ SetAvailableAudiosThresholdCalledWith(threshold)
    \/ /\ listeners.message > 0
       /\ AudiosMessage(threshold) \in Messages
       /\ SignalingMessageReceivedWith(AudiosMessage(threshold))

\* The calls of a successful replacement: one notification with the table, then
\* one applyConstraints with the decision when the local video is sent.
ReplacementCalls(event, threshold, sent, decision) ==
    <<Triggered(event, threshold)>>
        \o (IF sent THEN <<ApplyConstraints(decision)>> ELSE <<>>)

\* C4: a setter given a complete table, directly or by a control message, in any
\* lifecycle state, throws nothing, makes the table the active one of its kind,
\* leaves the other table, emits one change notification carrying the table and
\* then calls applyConstraints once with the decision under the new table if and
\* only if the local video is available and enabled.
C4_TableReplacement ==
    [][\A threshold \in Tables :
           Complete(threshold) =>
               /\ VideosThresholdSet(threshold) =>
                      /\ thrown' = NoError
                      /\ availableVideosThreshold' = threshold
                      /\ availableAudiosThreshold' = availableAudiosThreshold
                      /\ calls' = ReplacementCalls("change:availableVideosThreshold",
                                                   threshold, VideoSent', Decision')
               /\ AudiosThresholdSet(threshold) =>
                      /\ thrown' = NoError
                      /\ availableAudiosThreshold' = threshold
                      /\ availableVideosThreshold' = availableVideosThreshold
                      /\ calls' = ReplacementCalls("change:availableAudiosThreshold",
                                                   threshold, VideoSent', Decision')]_vars

\* C4 witness: a non-monotonic table has replaced the video table while the
\* throttler is not observing and the local video is sent: the notification is
\* followed by one applyConstraints with a level below HIGH.
C4_Witness ==
    /\ availableVideosThreshold = NonMonotonicTable
    /\ ~Observing
    /\ Len(calls) = 2
    /\ calls[1] = Triggered("change:availableVideosThreshold", NonMonotonicTable)
    /\ calls[2] = ApplyConstraints(Decision)
    /\ Decision # HIGH

\* The step calls a setter with threshold.
SetterCalledWith(threshold) ==
    \/ SetAvailableVideosThresholdCalledWith(threshold)
    \/ SetAvailableAudiosThresholdCalledWith(threshold)

C6_RejectedTableChangesNothing ==
    [][\A threshold \in Tables :
           (~Complete(threshold)
                /\ (VideosThresholdSet(threshold) \/ AudiosThresholdSet(threshold)))
               => /\ thrown' # NoError
                  /\ UNCHANGED throttler
                  /\ calls' = <<>>]_vars

\* C6 witness: a table that lacks a level below HIGH has been rejected while a
\* table set earlier is active, a grace timeout is pending and the local video is
\* sent.
C6_Witness ==
    /\ thrown = NoThresholdFor(LOW)
    /\ availableAudiosThreshold = NonMonotonicTable
    /\ speakingOrInGracePeriodAfterSpeaking
    /\ timers > 0
    /\ VideoSent

\* C7 as stated: while the throttler is observing with the audio enabled,
\* speakingOrInGrace goes from true to false only when the timeout scheduled as
\* speaking stopped fires; that timeout firing sets it to false and re-evaluates;
\* and speaking becoming true again leaves no timeout pending that could set it
\* to false.
C7_GracePeriod ==
    [][(Observing /\ localMediaModel.audioEnabled
            /\ Observing' /\ localMediaModel'.audioEnabled)
           => /\ (speakingOrInGracePeriodAfterSpeaking
                      /\ ~speakingOrInGracePeriodAfterSpeaking')
                  => /\ GracePeriodTimeoutFired
                     /\ gracePeriodAfterSpeakingTimeout = Pending /\ timers = 1
                     /\ ~localMediaModel.speaking
              /\ GracePeriodTimeoutFired
                  => /\ ~speakingOrInGracePeriodAfterSpeaking'
                     /\ VideoSent => calls' = <<ApplyConstraints(Decision')>>
              /\ (LocalSpeakingChanged /\ localMediaModel'.speaking)
                  => /\ speakingOrInGracePeriodAfterSpeaking'
                     /\ timers' = 0]_vars

\* C8 as stated: when the audio is disabled while the throttler is observing, the
\* handler leaves speakingOrInGrace false and no grace timeout pending, and has
\* re-evaluated.
C8_MuteForcesInactive ==
    [][(Observing /\ LocalAudioEnabledChanged /\ ~localMediaModel'.audioEnabled)
           => /\ ~speakingOrInGracePeriodAfterSpeaking'
              /\ gracePeriodAfterSpeakingTimeout' = Null
              /\ timers' = 0
              /\ VideoSent => calls' = <<ApplyConstraints(Decision')>>]_vars

\* C9: applyConstraints is called only by operations that find the local video
\* available and enabled.
C9_NoThrottlingWithoutSentVideo == Applied # <<>> => VideoSent

\* C9 witness: an expired grace timeout has called applyConstraints with a level
\* below HIGH after destroy().
C9_Witness ==
    /\ listeners.videoAvailable = 0
    /\ gracePeriodAfterSpeakingTimeout = Fired
    /\ Len(calls) = 1
    /\ calls[1].call = "applyConstraints"
    /\ calls[1].quality # HIGH

\* The throttler has no handler registered on any emitter.
NoRegistration ==
    /\ \A event \in DOMAIN listeners : listeners[event] = 0
    /\ \A p \in DOMAIN participantListeners : participantListeners[p] = 0

\* destroy() has been called: it alone removes the 'change:videoAvailable' handler
\* that the constructor registers.
Destroyed == listeners.videoAvailable = 0

\* The step is an event of the local media model, the collection, a participant
\* model or signaling.
EmitterEvent ==
    \/ LocalVideoAvailableChanged \/ LocalVideoEnabledChanged
    \/ LocalAudioEnabledChanged \/ LocalSpeakingChanged
    \/ ParticipantAdded \/ ParticipantRemoved
    \/ ParticipantVideoAvailableChanged \/ ParticipantAudioAvailableChanged
    \/ SignalingMessageReceived

\* C10 as stated: destroy() leaves no handler registered on the local media model,
\* the collection, a participant model or signaling, so that no later event of
\* theirs changes the throttler or calls applyConstraints; and a second destroy()
\* throws nothing and changes nothing.
C10_TeardownComplete ==
    [][/\ DestroyCalled => (NoRegistration' /\ thrown' = NoError)
       /\ (Destroyed /\ DestroyCalled) => UNCHANGED throttler
       /\ (Destroyed /\ EmitterEvent) => (UNCHANGED throttler /\ calls' = <<>>)]_vars

\* C11: a signaling message whose type is not 'control', or whose action is none
\* of the two the throttler knows, leaves both tables, the grace state and every
\* registration as they were, emits no notification, does not call
\* applyConstraints and throws nothing.
C11_UnrecognizedMessageIgnored ==
    [][\A message \in Messages :
           (/\ \/ message.type # "control"
               \/ message.payload.action \notin {"forceAvailableVideosThreshold",
                                                 "forceAvailableAudiosThreshold"}
            /\ SignalingMessageReceivedWith(message))
               => /\ UNCHANGED throttler
                  /\ calls' = <<>>
                  /\ thrown' = NoError]_vars

\* C11 witness: the handler has returned from a message of another type that
\* carries a known action and a complete table, while the local video is sent, the
\* default tables are active and a grace timeout is pending.
C11_Witness ==
    /\ ignoredMessage = Message("offer", "forceAvailableVideosThreshold", MonotonicTable)
    /\ VideoSent
    /\ availableVideosThreshold = DefaultAvailableVideosThreshold
    /\ timers > 0
    /\ calls = <<>>

\* The handler calls of one delivery to the registrations in list: one call per
\* registration, in the order of the list, with the throttler and the table.
Invocations(list, threshold) ==
    [i \in 1..Len(list) |-> Invoked(list[i], <<Throttler, threshold>>)]

\* The calls of a successful replacement with handlers registered.
DeliveryCalls(event, threshold, list, sent, decision) ==
    <<Triggered(event, threshold)>>
        \o Invocations(list, threshold)
        \o (IF sent THEN <<ApplyConstraints(decision)>> ELSE <<>>)

\* result is list less one registration of handler, or list when it has none.
LessOne(list, handler, result) ==
    IF \E i \in 1..Len(list) : list[i] = handler
    THEN \E i \in 1..Len(list) : list[i] = handler /\ result = Splice(list, i)
    ELSE result = list

\* C12: on(event, handler) adds a registration after those of the event and
\* off(event, handler) removes one; a successful replacement calls, before it
\* re-evaluates and returns, the handlers registered for its event when the
\* delivery starts, once per registration and in registration order, each with the
\* throttler and the new table, whatever the handlers register or remove meanwhile,
\* and calls no handler of the other event.
C12_NotificationDelivery ==
    [][/\ \A threshold \in Tables :
              Complete(threshold) =>
                  /\ VideosThresholdSet(threshold) =>
                         calls' = DeliveryCalls("change:availableVideosThreshold", threshold,
                                                handlers["change:availableVideosThreshold"],
                                                VideoSent', Decision')
                  /\ AudiosThresholdSet(threshold) =>
                         calls' = DeliveryCalls("change:availableAudiosThreshold", threshold,
                                                handlers["change:availableAudiosThreshold"],
                                                VideoSent', Decision')
       /\ \A event \in Events, handler \in ObserverHandlers :
              /\ OnCalledWith(event, handler) =>
                     handlers' = [handlers EXCEPT ![event] = Append(@, handler)]
              /\ OffCalledWith(event, handler) =>
                     /\ LessOne(handlers[event], handler, handlers'[event])
                     /\ \A other \in Events \ {event} : handlers'[other] = handlers[other]]_vars

\* C12 witness: a replacement of the video table has called "unsubscriber" and
\* then "log", which "unsubscriber" had just removed, and no handler of the other
\* event although one is registered.
C12_Witness ==
    /\ calls = <<Triggered("change:availableVideosThreshold", NonMonotonicTable),
                 Invoked("unsubscriber", <<Throttler, NonMonotonicTable>>),
                 Invoked("log", <<Throttler, NonMonotonicTable>>),
                 ApplyConstraints(Decision)>>
    /\ handlers["change:availableVideosThreshold"] = <<"unsubscriber">>
    /\ handlers["change:availableAudiosThreshold"] = <<"log">>

\* C13 as stated: at most one grace timeout is pending in every reachable state.
C13_AtMostOnePendingTimer == timers <= 1

\* C14 as stated: whenever the throttler is observing and the local participant is
\* speaking with the audio enabled, speakingOrInGrace is true.
C14_SpeakingImpliesActive ==
    (Observing /\ localMediaModel.speaking /\ localMediaModel.audioEnabled)
        => speakingOrInGracePeriodAfterSpeaking

\* C15 as stated: while the throttler is observing and the local video is enabled, a
\* change of videoAvailable or of audioAvailable of a member of the collection, a
\* member added and a member removed each make the throttler call applyConstraints
\* with the decision for the counts after the event.
C15_ParticipantChangeTriggers ==
    [][(/\ Observing /\ localMediaModel.videoEnabled
        /\ \/ ParticipantVideoAvailableChanged
           \/ ParticipantAudioAvailableChanged
           \/ ParticipantAdded
           \/ ParticipantRemoved)
           => /\ Applied' # <<>>
              /\ LastApplied' = Decision']_vars

\* C16 as stated, step by step: before destroy(), whenever the local video is
\* available and enabled the level last given to applyConstraints is the decision
\* for the current state. The constructor and every operation that calls
\* applyConstraints end with the decision for the state they leave, and an
\* operation that does not call it found the local video sent already and leaves
\* the decision as it was.
C16_AppliedTracksDecision ==
    /\ (VideoSent /\ ~Destroyed) => (Applied # <<>> /\ LastApplied = Decision)
    /\ [][(VideoSent' /\ ~Destroyed')
              => IF Applied' # <<>>
                 THEN LastApplied' = Decision'
                 ELSE VideoSent /\ Decision' = Decision]_vars

\* C17 as stated: once destroy() has returned no grace timeout is pending, and so
\* none fires, changes speakingOrInGrace or calls applyConstraints afterwards.
C17_GraceStateDestroyed ==
    [][/\ Destroyed' => timers' = 0
       /\ (Destroyed /\ GracePeriodTimeoutFired)
              => /\ speakingOrInGracePeriodAfterSpeaking'
                        = speakingOrInGracePeriodAfterSpeaking
                 /\ calls' = <<>>]_vars

\* The events _startListeningToChanges registers handlers for on the local media
\* model and the collection.
LifecycleEvents == {"videoEnabled", "audioEnabled", "speaking", "add", "remove"}

\* C18: before destroy(), the throttler is observing exactly when the local video
\* is available; it has a handler on 'change:videoEnabled', 'change:audioEnabled',
\* 'change:speaking', 'add' and 'remove' exactly when it is observing; and it has
\* one handler on 'change:videoAvailable' of every participant of the collection
\* when it is observing, and none on any other participant or when it is not.
C18_SubscriptionsMatchLifecycle ==
    ~Destroyed
        => /\ Observing <=> localMediaModel.videoAvailable
           /\ \A event \in LifecycleEvents : listeners[event] > 0 <=> Observing
           /\ \A p \in Participants :
                  participantListeners[p]
                      = IF Observing /\ callParticipantModels[p].present THEN 1 ELSE 0

\* C18 witness: the throttler is observing again after it had stopped (the grace
\* timeouts of two entries are pending), with one handler on every participant.
C18_Witness ==
    /\ ~Destroyed
    /\ Observing
    /\ timers = 2
    /\ \A p \in Participants :
           callParticipantModels[p].present /\ participantListeners[p] = 1

\* No threshold of the table is met by the count.
NeverMet(count, threshold) == \A q \in ThresholdLevels : count < threshold[q]

\* The decision has been taken while not speaking, with complete tables.
DecidedNotSpeaking ==
    /\ Applied # <<>>
    /\ ~speakingOrInGracePeriodAfterSpeaking
    /\ Complete(availableVideosThreshold) /\ Complete(availableAudiosThreshold)

\* The decision never is level q when the thresholds of one table are never met and
\* the other table gives level lower a smaller threshold than its neighbour
\* lower + 1.
Unreachable(q, lower) ==
    /\ (/\ NeverMet(AvailableAudiosCount(callParticipantModels), availableAudiosThreshold)
        /\ availableVideosThreshold[lower] < availableVideosThreshold[lower + 1])
           => LastApplied # q
    /\ (/\ NeverMet(AvailableVideosCount(callParticipantModels), availableVideosThreshold)
        /\ availableAudiosThreshold[lower] < availableAudiosThreshold[lower + 1])
           => LastApplied # q

\* C19 as stated: when an accepted table gives a level L a smaller threshold than
\* its higher-fidelity neighbour L + 1, the other table's thresholds are never met
\* and the participant is not speaking, the decision never is L.
C19_LowerLevelUnreachable ==
    DecidedNotSpeaking => \A L \in THUMBNAIL..MEDIUM : Unreachable(L, L)

\* C19 amended: in that configuration it is the higher-fidelity neighbour L + 1, when
\* it is one of the levels with a threshold (VERY_LOW, LOW, MEDIUM), that the
\* decision never is; L stays reachable.
C19_HigherLevelUnreachable ==
    DecidedNotSpeaking => \A L \in THUMBNAIL..(MEDIUM - 1) : Unreachable(L + 1, L)

\* C19 witness: THUMBNAIL has a smaller video threshold than VERY_LOW, the video
\* count meets both, no audio threshold is met, and the decision is THUMBNAIL.
C19_Witness ==
    /\ DecidedNotSpeaking
    /\ availableVideosThreshold[THUMBNAIL] < availableVideosThreshold[VERY_LOW]
    /\ AvailableVideosCount(callParticipantModels) >= availableVideosThreshold[VERY_LOW]
    /\ NeverMet(AvailableAudiosCount(callParticipantModels), availableAudiosThreshold)
    /\ LastApplied = THUMBNAIL

\* C20 as stated: the throttler's tables are its own copies, so a caller that
\* changes the object it passed to a setter changes neither of the active tables
\* nor the decision.
C20_TablesCopied ==
    [][ThresholdMutated
           => /\ availableVideosThreshold' = availableVideosThreshold
              /\ availableAudiosThreshold' = availableAudiosThreshold
              /\ Decision' = Decision]_vars

====
